---- MODULE Spec2Model ----
(***************************************************************************)
(* Model of the lence query service: the lifespan that registers the       *)
(* configured sources in the DuckDB wrapper (lence/database.py, app.py),   *)
(* the query routes (lence/backend/sources.py, lence/routes/query.py) and  *)
(* the query registry they consult (lence/backend/query_registry.py, which *)
(* the routes import; modelled from the design document).                  *)
(*                                                                         *)
(* SQL text is a sequence of one-character strings.  Parameter names are   *)
(* such sequences too, because they are cut out of the template text.      *)
(***************************************************************************)
EXTENDS Integers, Sequences, FiniteSets, TLC

\* ------------------------------------------------------------------ bounds

\* Number of requests handled in one run.
NReq == 2
\* Number of corpus scans (registry builds) in one run.
MaxBuilds == 2

\* --------------------------------------------------------------- utilities

\* set(seq)
Range(s) == {s[i] : i \in 1..Len(s)}

\* ------------------------------------------------------------ SQL text

Lower == {"a","b","c","d","e","f","g","h","i","j","k","l","m","n","o","p","q","r","s","t","u","v","w","x","y","z"}
Upper == {"A","B","C","D","E","F","G","H","I","J","K","L","M","N","O","P","Q","R","S","T","U","V","W","X","Y","Z"}
Digit == {"0","1","2","3","4","5","6","7","8","9"}
NameStart == Lower \cup Upper \cup {"_"}
NameChar == NameStart \cup Digit
\* What \s matches in a str pattern, among the characters up to U+00FF:
\* space, \t, \n, \r, \f, then \v (U+000B), U+001C to U+001F, U+0085 and
\* U+00A0, written raw.  The Unicode spaces above U+00FF are left out.
Space ==
    {" ", "\t", "\n", "\r", "\f", "", "", "", "", "", "", " "}

\* "${inputs." and ".value}": the two fixed parts of a placeholder token.
Prefix == <<"$","{","i","n","p","u","t","s",".">>
Suffix == <<".","v","a","l","u","e","}">>

\* t has the text w at position i.
HasAt(t, i, w) ==
    /\ i >= 1
    /\ i + Len(w) - 1 <= Len(t)
    /\ \A k \in 1..Len(w) : t[i + k - 1] = w[k]

\* The end of the longest run of name characters of t that starts at i
\* (i - 1 when t[i] is no name character).
RECURSIVE NameEnd(_, _)
NameEnd(t, i) ==
    IF i <= Len(t) /\ t[i] \in NameChar THEN NameEnd(t, i + 1) ELSE i - 1

TokenAtAnyName(t, i) ==
    LET s == i + Len(Prefix)
        e == NameEnd(t, s)
    IN  IF /\ HasAt(t, i, Prefix)
           /\ s <= e
           /\ HasAt(t, e + 1, Suffix)
        THEN [ok |-> TRUE, name |-> SubSeq(t, s, e), end |-> e + Len(Suffix)]
        ELSE [ok |-> FALSE, name |-> <<>>, end |-> i]

\* A placeholder token ${inputs.<name>.value} starts at i:
\* <name> matches [A-Za-z_][A-Za-z0-9_]*.
TokenAt(t, i) ==
    LET s == i + Len(Prefix)
        e == NameEnd(t, s)
    IN  IF /\ HasAt(t, i, Prefix)
           /\ s <= Len(t)
           /\ t[s] \in NameStart
           /\ HasAt(t, e + 1, Suffix)
        THEN [ok |-> TRUE, name |-> SubSeq(t, s, e), end |-> e + Len(Suffix)]
        ELSE [ok |-> FALSE, name |-> <<>>, end |-> i]

\* The names of the tokens of t from position i on, left to right, each once.
RECURSIVE ExtractFrom(_, _, _)
ExtractFrom(t, i, acc) ==
    IF i > Len(t) THEN acc
    ELSE LET m == TokenAt(t, i)
         IN  IF m.ok
             THEN ExtractFrom(t, m.end + 1,
                              IF m.name \in Range(acc) THEN acc ELSE Append(acc, m.name))
             ELSE ExtractFrom(t, i + 1, acc)

\* Parameter Extractor.
ExtractParams(t) == ExtractFrom(t, 1, <<>>)

\* Decimal digits of a natural number.
DigitOf(d) == <<"0","1","2","3","4","5","6","7","8","9">>[d + 1]

RECURSIVE NatText(_)
NatText(n) == IF n < 10 THEN <<DigitOf(n)>> ELSE NatText(n \div 10) \o <<DigitOf(n % 10)>>

IntText(n) == IF n < 0 THEN <<"-">> \o NatText(-n) ELSE NatText(n)

DoubleQuotesKept(s) == s

\* A string with every single quote doubled.
RECURSIVE DoubleQuotes(_)
DoubleQuotes(s) ==
    IF s = <<>> THEN <<>>
    ELSE (IF Head(s) = "'" THEN <<"'", "'">> ELSE <<Head(s)>>) \o DoubleQuotes(Tail(s))

\* Parameter values are tagged: str (characters), num (integer), bool, null,
\* list (sequence of scalars), obj (any other type).
Scalar(v) == v.t \in {"str", "num", "bool", "null"}

\* The literal-safe encoding of a scalar.
EncodeScalar(v) ==
    CASE v.t = "str"  -> <<"'">> \o DoubleQuotes(v.v) \o <<"'">>
      [] v.t = "num"  -> IntText(v.v)
      [] v.t = "bool" -> IF v.v THEN <<"T","R","U","E">> ELSE <<"F","A","L","S","E">>
      [] v.t = "null" -> <<"N","U","L","L">>

RECURSIVE EncodeItems(_)
EncodeItems(l) ==
    IF Len(l) = 1 THEN EncodeScalar(l[1])
    ELSE EncodeScalar(l[1]) \o <<",">> \o EncodeItems(Tail(l))

\* A value the encoding covers: a scalar, or a non-empty list of scalars.
Supported(v) ==
    \/ Scalar(v)
    \/ /\ v.t = "list"
       /\ v.v # <<>>
       /\ \A k \in 1..Len(v.v) : Scalar(v.v[k])

Encode(v) ==
    IF v.t = "list" THEN <<"(">> \o EncodeItems(v.v) \o <<")">> ELSE EncodeScalar(v)

\* The template from position i on with every token replaced by the encoding
\* of its value; all other text is copied.
RECURSIVE InterpolateFrom(_, _, _)
InterpolateFrom(t, i, values) ==
    IF i > Len(t) THEN <<>>
    ELSE LET m == TokenAt(t, i)
         IN  IF m.ok /\ m.name \in DOMAIN values
             THEN Encode(values[m.name]) \o InterpolateFrom(t, m.end + 1, values)
             ELSE <<t[i]>> \o InterpolateFrom(t, i + 1, values)

\* registry.interpolate_sql(query, params): ok and the SQL text, or a
\* rejection when a value is outside the supported domain.
InterpolateSql(query, values) ==
    IF \A n \in DOMAIN values : Supported(values[n])
    THEN [ok |-> TRUE, sql |-> InterpolateFrom(query.sql_template, 1, values)]
    ELSE [ok |-> FALSE, sql |-> <<>>]

\* ------------------------------------------------------------ the corpus

T_top == <<"S","E","L","E","C","T"," ","$","{","i","n","p","u","t","s",".","a",".","v","a","l","u","e","}",",","$","{","i","n","p","u","t","s",".","b",".","v","a","l","u","e","}">>
T_all == <<"S","E","L","E","C","T"," ","1">>
T_x == <<"S","E","L","E","C","T"," ","$","{","i","n","p","u","t","s",".","a",".","v","a","l","u","e","}">>
T_top2 == <<"S","E","L","E","C","T"," ","$","{","i","n","p","u","t","s",".","c",".","v","a","l","u","e","}">>

\* A query block of a page, as the markdown collaborator segments it.
Block(page, name, source, sql) ==
    [page |-> page, name |-> name, source |-> source, sql |-> sql]

\* The page corpus as it may be found by a scan: the first corpus, an edited
\* corpus, and a corpus in which a page declares the same query name twice.
CorpusA == <<Block("sales", "top", "orders_src", T_top),
             Block("sales", "all", "orders_src", T_all),
             Block("ops", "x", "nosuch", T_x)>>
CorpusB == <<Block("sales", "top", "orders_src", T_top2),
             Block("ops", "x", "nosuch", T_x)>>
CorpusDup == <<Block("sales", "all", "orders_src", T_all),
               Block("sales", "top", "orders_src", T_top),
               Block("sales", "all", "events", T_x)>>
Corpora == {CorpusA, CorpusB, CorpusDup}

\* Registry keys a request may name.
Keys == {<<"sales", "top">>, <<"sales", "all">>, <<"ops", "x">>, <<"sales", "none">>}

\* ------------------------------------------------------- Query Registry

\* A Query Definition: the params are extracted once, when it is built.
QueryDefinition(b) ==
    [page |-> b.page, name |-> b.name, source |-> b.source,
     sql_template |-> b.sql, params |-> ExtractParams(b.sql),
     found |-> TRUE]

\* "absent": what get() answers for a key without a definition.
Absent ==
    [page |-> "", name |-> "", source |-> "", sql_template |-> <<>>,
     params |-> <<>>, found |-> FALSE]

EmptyRegistry == [k \in {} |-> Absent]

\* get(page, name): exact-match lookup that answers absent for unknown keys.
RegistryGet(reg, key) == IF key \in DOMAIN reg THEN reg[key] ELSE Absent

AddDefinitionOverwrite(acc, b) ==
    [ok |-> TRUE,
     reg |-> [k \in DOMAIN acc \cup {<<b.page, b.name>>} |->
                IF k = <<b.page, b.name>> THEN QueryDefinition(b) ELSE acc[k]]]

\* One block added to the snapshot under construction; a (page, name) that
\* the snapshot already holds is a corpus-consistency failure.
AddDefinition(acc, b) ==
    IF <<b.page, b.name>> \in DOMAIN acc
    THEN [ok |-> FALSE, reg |-> acc]
    ELSE [ok |-> TRUE,
          reg |-> [k \in DOMAIN acc \cup {<<b.page, b.name>>} |->
                     IF k = <<b.page, b.name>> THEN QueryDefinition(b) ELSE acc[k]]]

\* The registry a complete scan of a duplicate-free corpus produces.
RECURSIVE BuildAll(_, _)
BuildAll(corpus, acc) ==
    IF corpus = <<>> THEN acc
    ELSE BuildAll(Tail(corpus), AddDefinition(acc, Head(corpus)).reg)

HasDuplicate(corpus) ==
    \E i, j \in 1..Len(corpus) :
        i < j /\ corpus[i].page = corpus[j].page /\ corpus[i].name = corpus[j].name

\* ------------------------------------------------------- Source Catalog

DataSource(type, path, description) ==
    [type |-> type, path |-> path, description |-> description]

\* Files present under the project directory.
Files == {"data/orders.csv", "data/events.parquet"}

\* sources.yaml as it may be loaded: an ordered mapping name -> DataSource.
ConfigGood == <<[name |-> "orders_src", source |-> DataSource("csv", "data/orders.csv", "Orders")],
                [name |-> "events", source |-> DataSource("parquet", "data/events.parquet", "")]>>
ConfigUnsupported == <<[name |-> "orders_src", source |-> DataSource("csv", "data/orders.csv", "Orders")],
                       [name |-> "sheet", source |-> DataSource("xlsx", "data/sheet.xlsx", "")],
                       [name |-> "events", source |-> DataSource("parquet", "data/events.parquet", "")]>>
ConfigMissingFile == <<[name |-> "orders_src", source |-> DataSource("csv", "data/orders.csv", "Orders")],
                       [name |-> "gone", source |-> DataSource("csv", "data/gone.csv", "")]>>
ConfigJson == <<[name |-> "events", source |-> DataSource("json", "data/events.json", "")],
               [name |-> "orders_src", source |-> DataSource("csv", "data/orders.csv", "Orders")]>>
ConfigOne == <<[name |-> "orders_src", source |-> DataSource("csv", "data/orders.csv", "Orders")]>>
Configs == {ConfigGood, ConfigUnsupported, ConfigMissingFile, ConfigJson, ConfigOne}

\* A Python dict: entries in insertion order, one per key.
DictKeys(d) == {d[i].name : i \in 1..Len(d)}
DictGet(d, k) == d[CHOOSE i \in 1..Len(d) : d[i].name = k].source

\* d[k] = v: a new key is appended, an existing key keeps its position.
DictSet(d, k, v) ==
    IF k \in DictKeys(d)
    THEN [i \in 1..Len(d) |-> IF d[i].name = k THEN [name |-> k, source |-> v] ELSE d[i]]
    ELSE Append(d, [name |-> k, source |-> v])

DictPop(d, k) == SelectSeq(d, LAMBDA e : e.name # k)

\* list(d.keys()): the keys in insertion order.
DictKeyList(d) == [i \in 1..Len(d) |-> d[i].name]

RegisterOutcomeLenient(source) ==
    IF source.type \in {"csv", "parquet"} /\ source.path \notin Files
    THEN "IOException"
    ELSE "ok"

\* What the body of register_source does after it stored the source: create
\* the view (the engine raises when the file cannot be read) or raise
\* ValueError for a type that is neither csv nor parquet.
RegisterOutcome(source) ==
    IF source.type = "csv" \/ source.type = "parquet"
    THEN IF source.path \in Files THEN "ok" ELSE "IOException"
    ELSE "ValueError"

\* ------------------------------------------------------------ responses

Response(status, msg, arg) == [status |-> status, msg |-> msg, arg |-> arg]
NoResponse == Response(0, "", "")

\* The engine's answers: a cursor with its description and rows, or an error.
EngineErrors == {"Parser Error: syntax error", "Catalog Error: no such table"}
ResultEmpty == [description |-> << <<"n", "INTEGER">> >>, rows |-> <<>>]
ResultTwo == [description |-> << <<"region", "VARCHAR">>, <<"total", "BIGINT">> >>,
              rows |-> << <<"west", 10>>, <<"east", 7>> >>]
EngineResults == {ResultEmpty, ResultTwo}
NoCursor == [description |-> <<>>, rows |-> <<>>]

\* {"name": desc[0], "type": str(desc[1])} for one entry of the description.
ColumnOf(desc) == [name |-> desc[1], type |-> desc[2]]

QueryResultCountsColumns(cur) ==
    [columns |-> [j \in 1..Len(cur.description) |-> ColumnOf(cur.description[j])],
     data |-> cur.rows,
     row_count |-> Len(cur.description)]

\* Database.execute_query: columns from the description, rows as lists,
\* row_count = len(data).
QueryResult(cur) ==
    [columns |-> [j \in 1..Len(cur.description) |-> ColumnOf(cur.description[j])],
     data |-> [i \in 1..Len(cur.rows) |-> cur.rows[i]],
     row_count |-> Len(cur.rows)]

OnEngineErrorUnhandled(e) == Response(500, "Internal Server Error", "")

\* except Exception as e: HTTPException(400, f"Query error: {str(e)}").
OnEngineError(e) == Response(400, "Query error: ", e)

\* ------------------------------------------------------------- requests

\* Parameter names and values a client may send.
A == <<"a">>
B == <<"b">>
C == <<"c">>
Names == {A, B, C}
VStr == [t |-> "str", v |-> <<"O", "'", "B">>]
VNum == [t |-> "num", v |-> 10]
Values == {VStr, VNum}
\* Values of the other JSON types: a list of scalars, an empty list, a list
\* with a list in it, an object.
VList == [t |-> "list", v |-> <<VNum, VStr>>]
VEmptyList == [t |-> "list", v |-> <<>>]
VNested == [t |-> "list", v |-> <<[t |-> "list", v |-> <<VNum>>]>>]
VObj == [t |-> "obj", v |-> <<>>]
OtherParamMaps ==
    {(C :> VList), (C :> VEmptyList), (C :> VNested), (C :> VObj),
     (A :> VObj) @@ (B :> VNum), (A :> VNum) @@ (B :> VEmptyList)}
\* Every value for every name of the sets a definition may declare, one map
\* for each of the other sets of names, and the maps of the other types.
ParamMaps ==
    UNION {[S -> Values] : S \in {{}, {A}, {B}, {C}, {A, B}}}
    \cup {[n \in S |-> VNum] : S \in {{B, C}, {A, C}, {A, B, C}}}
    \cup OtherParamMaps
NoParams == [n \in {} |-> VNum]

\* SQL text a client may send to the raw-SQL route.
SqlSelect == <<"S","E","L","E","C","T"," ","2">>
SqlDrop == <<"D","R","O","P"," ","V","I","E","W"," ","t">>
\* \r and U+000B before the word, in lower case, and U+00A0 after it.
SqlSelectCr == <<"\r","","s","e","l","e","c","t"," ","2">>
\* A text of 150 characters that does not start with SELECT.
SqlLong == [k \in 1..150 |-> "x"]
CallerSql == {SqlSelect, SqlDrop, SqlSelectCr, SqlLong}

\* re.match(r'^\s*SELECT\s', sql, re.IGNORECASE)
RECURSIVE SkipSpace(_, _)
SkipSpace(t, i) == IF i <= Len(t) /\ t[i] \in Space THEN SkipSpace(t, i + 1) ELSE i

UpperOf(c) ==
    CASE c = "s" -> "S" [] c = "e" -> "E" [] c = "l" -> "L" [] c = "c" -> "C"
      [] c = "t" -> "T" [] OTHER -> c

IsSelect(sql) ==
    LET i == SkipSpace(sql, 1)
        w == <<"S","E","L","E","C","T">>
    IN  /\ i + 6 <= Len(sql)
        /\ \A k \in 1..6 : UpperOf(sql[i + k - 1]) = w[k]
        /\ sql[i + 6] \in Space

\* ---------------------------------------------------------------- state

VARIABLES
    phase,              \* lifespan: "startup", "serving" or "failed"
    config,             \* the loaded sources configuration
    cfgIdx,             \* register_sources: the next entry of config.sources
    regPc,              \* register_source: "idle" or "inside" (source stored, view pending)
    startupError,       \* the exception that ended the startup, or ""
    regCalls,           \* the register_source calls made, with their outcome
    sources,            \* Database.sources
    registered_tables,  \* Database._registered_tables
    registry,           \* the live registry snapshot
    build,              \* the corpus scan in progress, or the last one
    builds,             \* number of scans started
    req,                \* the request being handled, or the last one handled
    served,             \* number of requests taken so far
    text,               \* the template under extraction or interpolation
    page                \* the pages directories and the page request

lifeVars == <<phase, config, cfgIdx, regPc, startupError, regCalls>>
catVars == <<sources, registered_tables>>
regVars == <<registry, build, builds>>
mainVars == <<phase, config, cfgIdx, regPc, startupError, regCalls, sources,
              registered_tables, registry, build, builds, req, served>>
auxVars == <<text, page>>
vars == <<mainVars, auxVars>>
reqVars == <<req, served>>

IdleReq ==
    [kind |-> "none", pc |-> "idle", key |-> <<"", "">>, params |-> NoParams,
     source |-> "", sql |-> <<>>, reg |-> EmptyRegistry, query |-> Absent,
     runsql |-> <<>>, error |-> "", resp |-> NoResponse, calls |-> 0,
     readCatalog |-> FALSE, cursor |-> NoCursor]

\* No template is being processed; no page request is being served.
NoText ==
    [pc |-> "off", pieces |-> <<>>, template |-> <<>>, value |-> <<>>,
     names |-> <<>>, sql |-> <<>>]
NoPage ==
    [pc |-> "off", fs |-> <<>>, cut |-> {}, method |-> "", url |-> <<>>,
     handler |-> "", path |-> <<>>, send |-> <<>>, length |-> 0, file |-> <<>>,
     pos |-> 0, chunk |-> 0, body |-> <<>>, changes |-> 0, resp |-> NoResponse]

NoBuild ==
    [state |-> "idle", corpus |-> <<>>, idx |-> 1, acc |-> EmptyRegistry,
     before |-> EmptyRegistry, error |-> ""]

Init ==
    /\ phase = "startup"
    /\ config \in Configs
    /\ cfgIdx = 1
    /\ regPc = "idle"
    /\ startupError = ""
    /\ regCalls = <<>>
    /\ sources = <<>>
    /\ registered_tables = {}
    /\ registry = EmptyRegistry
    /\ build = NoBuild
    /\ builds = 0
    /\ req = IdleReq
    /\ served = 0
    /\ text = NoText
    /\ page = NoPage

\* ------------------------------------------------------------- lifespan

\* register_source, first statement: self.sources[name] = source.
RegisterSourceStore ==
    /\ phase = "startup"
    /\ regPc = "idle"
    /\ cfgIdx <= Len(config)
    /\ sources' = DictSet(sources, config[cfgIdx].name, config[cfgIdx].source)
    /\ regPc' = "inside"
    /\ UNCHANGED <<auxVars, phase, config, cfgIdx, startupError, regCalls,
                   registered_tables, regVars, reqVars>>

\* register_source, the rest: the view is created and the name recorded, or
\* the call raises; register_sources and the lifespan let the exception
\* through, and the application does not start.
RegisterSourceFinish ==
    /\ phase = "startup"
    /\ regPc = "inside"
    /\ LET e == config[cfgIdx]
           out == RegisterOutcome(e.source)
       IN  /\ regCalls' = Append(regCalls,
                                 [name |-> e.name, type |-> e.source.type, outcome |-> out])
           /\ IF out = "ok"
              THEN /\ registered_tables' = registered_tables \cup {e.name}
                   /\ cfgIdx' = cfgIdx + 1
                   /\ UNCHANGED <<phase, startupError>>
              ELSE /\ phase' = "failed"
                   /\ startupError' = out
                   /\ UNCHANGED <<registered_tables, cfgIdx>>
    /\ regPc' = "idle"
    /\ UNCHANGED <<auxVars, config, sources, regVars, reqVars>>

\* The lifespan yields: from here on the routes are served.
StartupComplete ==
    /\ phase = "startup"
    /\ regPc = "idle"
    /\ cfgIdx > Len(config)
    /\ phase' = "serving"
    /\ UNCHANGED <<auxVars, config, cfgIdx, regPc, startupError, regCalls, catVars, regVars, reqVars>>

AcceptingDuringStartup == phase \in {"startup", "serving"}

\* A route handler runs only between the lifespan's startup and shutdown.
AcceptingRequests == phase = "serving"

\* ------------------------------------------------------- registry build

\* A corpus scan starts on a fresh, private snapshot.
BuildStart(corpus) ==
    /\ phase = "serving"
    /\ build.state # "running"
    /\ builds < MaxBuilds
    /\ builds' = builds + 1
    /\ build' = [state |-> "running", corpus |-> corpus, idx |-> 1,
                 acc |-> EmptyRegistry, before |-> registry, error |-> ""]
    /\ UNCHANGED <<auxVars, lifeVars, catVars, registry, reqVars>>

\* The next block of the scan: added, or the scan is aborted on a duplicate.
BuildStep ==
    /\ build.state = "running"
    /\ build.idx <= Len(build.corpus)
    /\ LET a == AddDefinition(build.acc, build.corpus[build.idx])
       IN  build' = IF a.ok
                    THEN [build EXCEPT !.acc = a.reg, !.idx = @ + 1]
                    ELSE [build EXCEPT !.state = "aborted", !.acc = EmptyRegistry,
                                       !.error = "ConfigurationError"]
    /\ UNCHANGED <<auxVars, lifeVars, catVars, registry, builds, reqVars>>

\* The finished snapshot replaces the live one in one step.
BuildCommit ==
    /\ build.state = "running"
    /\ build.idx > Len(build.corpus)
    /\ registry' = build.acc
    /\ build' = [build EXCEPT !.state = "committed", !.acc = EmptyRegistry]
    /\ UNCHANGED <<auxVars, lifeVars, catVars, builds, reqVars>>

\* ------------------------------------------------------- request handlers

\* The handlers are coroutines without an await: the event loop runs one to
\* its end before it starts the next.
MayStart ==
    /\ AcceptingRequests
    /\ req.pc \in {"idle", "done"}
    /\ served < NReq

Ok == Response(200, "", "")

ResolveUnchecked(q, key) == Ok

\* if query is None: raise HTTPException(404, "Query not found: ...").
Resolve(q, key) ==
    IF ~q.found THEN Response(404, "Query not found: ", key) ELSE Ok

\* missing = expected - received, reported alone; extra = received -
\* expected, reported only when nothing is missing.
CheckParams(expected, received) ==
    LET missing == expected \ received
        extra == received \ expected
    IN  IF missing # {} THEN Response(400, "Missing parameters: ", missing)
        ELSE IF extra # {} THEN Response(400, "Unexpected parameters: ", extra)
        ELSE Ok

SecureChecksParamsFirst(q, params, known) ==
    LET p == CheckParams(Range(q.params), DOMAIN params)
    IN  IF p.status # 200 THEN p
        ELSE IF q.source \notin known THEN Response(400, "Unknown source: ", q.source)
        ELSE Ok

\* The checks of /query/v2 on a resolved definition, in the order of the
\* code: the source, then the parameter names.
SecureChecks(q, params, known) ==
    IF q.source \notin known THEN Response(400, "Unknown source: ", q.source)
    ELSE CheckParams(Range(q.params), DOMAIN params)

QueryForInterpolationFresh == RegistryGet(registry, req.key)

\* The definition handed to interpolate_sql: the one the lookup returned.
QueryForInterpolation == req.query

\* POST /query/v2, up to the lookup: the handler takes the registry and the
\* database and looks the definition up.
SecureStart(key, params) ==
    /\ MayStart
    /\ served' = served + 1
    /\ LET q == RegistryGet(registry, key)
           res == Resolve(q, key)
       IN  req' = [IdleReq EXCEPT
                      !.kind = "secure", !.key = key, !.params = params,
                      !.reg = registry, !.query = q,
                      !.pc = IF res.status = 200 THEN "resolved" ELSE "done",
                      !.resp = IF res.status = 200 THEN NoResponse ELSE res]
    /\ UNCHANGED <<auxVars, lifeVars, catVars, regVars>>

\* What interpolate_sql raises for a value it rejects: the InvalidParameters
\* failure of the design, an HTTPException with status 400.
InvalidParameters ==
    [class |-> "HTTPException", status |-> 400, detail |-> "Invalid parameters: "]

OnInterpolationErrorUnhandled(e) == Response(500, "Internal Server Error", "")

\* The call is outside the handler's try block and the handler has no except
\* clause for it: the exception leaves the handler as it is.  An
\* HTTPException is answered with its status and detail, any other
\* exception as an internal server error.
OnInterpolationError(e) ==
    IF e.class = "HTTPException"
    THEN Response(e.status, e.detail, "")
    ELSE Response(500, "Internal Server Error", "")

\* POST /query/v2, from the source check to the interpolated SQL.
SecureValidate ==
    /\ req.pc = "resolved"
    /\ LET res == SecureChecks(req.query, req.params, DictKeys(sources))
           i == InterpolateSql(QueryForInterpolation, req.params)
       IN  IF res.status # 200
           THEN req' = [req EXCEPT !.pc = "done", !.resp = res, !.readCatalog = TRUE]
           ELSE IF ~i.ok
           THEN req' = [req EXCEPT !.pc = "done", !.readCatalog = TRUE,
                                   !.resp = OnInterpolationError(InvalidParameters)]
           ELSE req' = [req EXCEPT !.pc = "ready", !.runsql = i.sql,
                                   !.readCatalog = TRUE]
    /\ UNCHANGED <<auxVars, lifeVars, catVars, regVars, served>>

\* text[:n]
Take(t, n) == SubSeq(t, 1, IF Len(t) < n THEN Len(t) ELSE n)

\* The detail of POST /query for a source that is not registered names the
\* source and lists the registered ones.
UnknownSourceRaw(source, d) ==
    Response(400, "Unknown source: ", <<source, DictKeyList(d)>>)

\* A request of POST /query after its checks.
RawRequest(source, sql, res) ==
    [IdleReq EXCEPT
        !.kind = "raw", !.source = source, !.sql = sql, !.readCatalog = TRUE,
        !.pc = IF res.status = 200 THEN "ready" ELSE "done",
        !.runsql = IF res.status = 200 THEN sql ELSE <<>>,
        !.resp = IF res.status = 200 THEN NoResponse ELSE res]

\* POST /query of backend/sources.py: the source must be registered and the
\* text must start with SELECT; then the caller's SQL goes to the engine.
ExecuteQueryBackend(source, sql) ==
    /\ MayStart
    /\ served' = served + 1
    /\ req' = RawRequest(source, sql,
                         IF source \notin DictKeys(sources)
                         THEN UnknownSourceRaw(source, sources)
                         ELSE IF ~IsSelect(sql)
                         THEN Response(400, "Only SELECT queries are allowed. Got: ",
                                       Take(sql, 100))
                         ELSE Ok)
    /\ UNCHANGED <<auxVars, lifeVars, catVars, regVars>>

\* POST /query of routes/query.py: the source must be registered; then the
\* caller's SQL goes to the engine.
ExecuteQueryRoutes(source, sql) ==
    /\ MayStart
    /\ served' = served + 1
    /\ req' = RawRequest(source, sql,
                         IF source \notin DictKeys(sources)
                         THEN UnknownSourceRaw(source, sources)
                         ELSE Ok)
    /\ UNCHANGED <<auxVars, lifeVars, catVars, regVars>>

\* db.execute_query(sql) is entered: conn.execute(sql) runs on the engine.
ExecBegin ==
    /\ req.pc = "ready"
    /\ req' = [req EXCEPT !.pc = "executing", !.calls = @ + 1]
    /\ UNCHANGED <<auxVars, lifeVars, catVars, regVars, served>>

\* The engine answers: the result is shaped and returned.
ExecReturn ==
    /\ req.pc = "executing"
    /\ \E cur \in EngineResults :
          req' = [req EXCEPT !.pc = "done", !.cursor = cur,
                             !.resp = Response(200, "", QueryResult(cur))]
    /\ UNCHANGED <<auxVars, lifeVars, catVars, regVars, served>>

\* The engine raises: the handler's except clause turns it into a response.
ExecRaise ==
    /\ req.pc = "executing"
    /\ \E e \in EngineErrors :
          req' = [req EXCEPT !.pc = "done", !.error = e, !.resp = OnEngineError(e)]
    /\ UNCHANGED <<auxVars, lifeVars, catVars, regVars, served>>

ListOfButLast(d) ==
    [i \in 1..(Len(d) - 1) |->
        [name |-> d[i].name, type |-> d[i].source.type,
         description |-> d[i].source.description]]

\* Database.list_sources: one entry per item of sources, in its order.
ListOf(d) ==
    [i \in 1..Len(d) |->
        [name |-> d[i].name, type |-> d[i].source.type,
         description |-> d[i].source.description]]

\* GET /api/sources (routes/query.py; the list_sources of backend/sources.py
\* has the same body).
ListSources ==
    /\ MayStart
    /\ served' = served + 1
    /\ req' = [IdleReq EXCEPT !.kind = "list", !.pc = "done", !.readCatalog = TRUE,
                              !.resp = Response(200, "sources", ListOf(sources))]
    /\ UNCHANGED <<auxVars, lifeVars, catVars, regVars>>

\* get_source's answer for a name.
SourceInfo(d, name) ==
    IF name \notin DictKeys(d)
    THEN Response(404, "Source not found: ", name)
    ELSE Response(200, "source",
                  [name |-> name, type |-> DictGet(d, name).type,
                   description |-> DictGet(d, name).description])

SourcesAfterPop(d, name) == DictPop(d, name)

\* source = db.sources[source_name] reads the dict and leaves it as it is.
SourcesAfterGet(d, name) == d

\* GET /api/sources/{source_name} (routes/query.py; the get_source of
\* backend/sources.py has the same body).
GetSource(name) ==
    /\ MayStart
    /\ served' = served + 1
    /\ req' = [IdleReq EXCEPT !.kind = "describe", !.source = name, !.pc = "done",
                              !.readCatalog = TRUE, !.resp = SourceInfo(sources, name)]
    /\ sources' = SourcesAfterGet(sources, name)
    /\ UNCHANGED <<auxVars, lifeVars, registered_tables, regVars>>

\* menu.yaml as loaded.
ConfigMenu == <<[title |-> "Home", path |-> "/", children |-> <<>>]>>

\* GET /api/config/menu: the menu of the loaded configuration.
GetMenu ==
    /\ MayStart
    /\ served' = served + 1
    /\ req' = [IdleReq EXCEPT !.kind = "menu", !.pc = "done",
                              !.resp = Response(200, "menu", ConfigMenu)]
    /\ UNCHANGED <<auxVars, lifeVars, catVars, regVars>>

\* ------------------------------------------------------------------ next

\* The application create_app of lence/app.py builds: the lifespan, the
\* router of routes/query.py under /api, and the menu route.  Its page routes
\* are taken apart, in NextPages.
Next ==
    \/ RegisterSourceStore
    \/ RegisterSourceFinish
    \/ StartupComplete
    \/ \E s \in {"orders_src", "nosuch"}, q \in CallerSql : ExecuteQueryRoutes(s, q)
    \/ ExecBegin
    \/ ExecReturn
    \/ ExecRaise
    \/ ListSources
    \/ \E n \in {"orders_src", "sheet", "nosuch"} : GetSource(n)
    \/ GetMenu

Spec == Init /\ [][Next]_vars

\* The application that serves the router of backend/sources.py, with the
\* query registry.  Its factory (lence/backend/app.py) and its database
\* module (lence/backend/database.py) are not in the source tree: startup and
\* catalog are taken to be those of lence/app.py and lence/database.py.
NextBackend ==
    \/ RegisterSourceStore
    \/ RegisterSourceFinish
    \/ StartupComplete
    \/ \E c \in Corpora : BuildStart(c)
    \/ BuildStep
    \/ BuildCommit
    \/ \E k \in Keys, p \in ParamMaps : SecureStart(k, p)
    \/ SecureValidate
    \/ \E s \in {"orders_src", "nosuch"}, q \in CallerSql : ExecuteQueryBackend(s, q)
    \/ ExecBegin
    \/ ExecReturn
    \/ ExecRaise
    \/ ListSources
    \/ \E n \in {"orders_src", "sheet", "nosuch"} : GetSource(n)

SpecBackend == Init /\ [][NextBackend]_vars

\* ------------------------------------------------- templates, one by one

\* Longest template, in pieces, and longest string value, in characters.
MaxPieces == 3
MaxStrLen == 2

\* The pieces a template is written from: plain SQL text, a quote, well-formed
\* tokens, a token without its .value suffix, a token whose name starts with
\* a digit.
Piece(kind, name, txt) == [kind |-> kind, name |-> name, txt |-> txt]
Name_a1 == <<"_","a","1">>
Pieces ==
    { Piece("lit", <<>>, <<"x","=">>),
      Piece("lit", <<>>, <<"'">>),
      Piece("tok", A, Prefix \o A \o Suffix),
      Piece("tok", B, Prefix \o B \o Suffix),
      Piece("tok", Name_a1, Prefix \o Name_a1 \o Suffix),
      Piece("bad", A, Prefix \o A \o <<"}">>),
      Piece("bad", <<"1","a">>, Prefix \o <<"1","a">> \o Suffix) }

RECURSIVE Flatten(_)
Flatten(ps) == IF ps = <<>> THEN <<>> ELSE Head(ps).txt \o Flatten(Tail(ps))

PieceSeqs == UNION {[1..k -> Pieces] : k \in 0..MaxPieces}
StrChars == {"O", "'"}
Strings == UNION {[1..k -> StrChars] : k \in 0..MaxStrLen}

\* The rest of the service stands still while one template is processed.
Halted ==
    /\ phase = "off"
    /\ config = ConfigOne
    /\ cfgIdx = 1
    /\ regPc = "idle"
    /\ startupError = ""
    /\ regCalls = <<>>
    /\ sources = <<>>
    /\ registered_tables = {}
    /\ registry = EmptyRegistry
    /\ build = NoBuild
    /\ builds = 0
    /\ req = IdleReq
    /\ served = 0

InitText ==
    /\ Halted
    /\ page = NoPage
    /\ \E ps \in PieceSeqs, v \in Strings :
          text = [pc |-> "input", pieces |-> ps, template |-> Flatten(ps),
                  value |-> v, names |-> <<>>, sql |-> <<>>]

\* The Parameter Extractor runs on the template.
ExtractStep ==
    /\ text.pc = "input"
    /\ text' = [text EXCEPT !.pc = "extracted",
                            !.names = ExtractParams(text.template)]
    /\ UNCHANGED <<mainVars, page>>

\* The template is built into a definition and interpolated with the string
\* value given for each of its params.
InterpolateStep ==
    /\ text.pc = "input"
    /\ LET q == QueryDefinition(Block("p", "q", "s", text.template))
           values == [n \in Range(q.params) |-> [t |-> "str", v |-> text.value]]
       IN  text' = [text EXCEPT !.pc = "interpolated",
                                !.names = q.params,
                                !.sql = InterpolateSql(q, values).sql]
    /\ UNCHANGED <<mainVars, page>>

NextText == ExtractStep \/ InterpolateStep

SpecText == InitText /\ [][NextText]_vars

\* ------------------------------------------------------------------ pages

\* A file path is the sequence of its components from the root; a component
\* is text.  P stands for the project directory, K for the package directory.
N_P == <<"P">>
N_K == <<"K">>
N_pages == <<"p","a","g","e","s">>
N_static == <<"s","t","a","t","i","c">>
N_templates == <<"t","e","m","p","l","a","t","e","s">>
N_index == <<"i","n","d","e","x",".","h","t","m","l">>
N_i_md == <<"i",".","m","d">>
N_v_1 == <<"v",".","1">>
N_pages_md == <<"p","a","g","e","s",".","m","d">>
\* A name of 300 characters.
N_long == [k \in 1..300 |-> "a"]

\* NAME_MAX of the file system that file_path.exists() stats: the longest
\* name a directory entry can have.
NameMax == 255

\* FileResponse.chunk_size, 64 * 1024: the bytes read and sent at a time.
ChunkSize == 65536

\* How many times the files change while one response is under way.
MaxChanges == 1

\* pages_dir, package_pages_dir, and the two index.html of spa_fallback.
ProjectPagesDir == <<N_P, N_pages>>
PackagePagesDir == <<N_K, N_pages>>
ProjectIndex == <<N_P, N_static, N_index>>
PackageIndex == <<N_K, N_templates, N_index>>

\* The directories that are always there, and the entries that may be a
\* regular file, a directory, or missing.  The project has a static
\* directory, the package has none.
FixedDirs ==
    {<<>>, <<N_P>>, <<N_K>>, ProjectPagesDir, PackagePagesDir,
     <<N_P, N_static>>, <<N_K, N_templates>>}
EntryKinds == {"none", "file", "dir"}
\* What an entry may become while a response is under way: "newfile" is a
\* regular file that is not the one that was there before.
ChangeKinds == EntryKinds \cup {"newfile"}
Regular == {"file", "newfile"}
FileSystems ==
    {f \in [{ProjectPagesDir \o <<N_i_md>>, ProjectPagesDir \o <<N_v_1>>,
             PackagePagesDir \o <<N_i_md>>, PackagePagesDir \o <<N_v_1>>,
             <<N_P, N_pages_md>>, ProjectIndex, PackageIndex} -> EntryKinds] :
        /\ f[PackagePagesDir \o <<N_i_md>>] # "dir"
        /\ f[PackagePagesDir \o <<N_v_1>>] # "dir"
        /\ f[<<N_P, N_pages_md>>] # "dir"
        /\ f[PackageIndex] # "dir"}

\* The URL paths requested, as the server hands them to the application.
U_pages_i == <<"/","p","a","g","e","s","/","i">>
U_pages_i_md == <<"/","p","a","g","e","s","/","i",".","m","d">>
U_pages_v_1 == <<"/","p","a","g","e","s","/","v",".","1">>
U_pages_x == <<"/","p","a","g","e","s","/","x">>
U_pages_i_slash == <<"/","p","a","g","e","s","/","i","/">>
U_pages_empty == <<"/","p","a","g","e","s","/">>
U_pages_up == <<"/","p","a","g","e","s","/",".",".","/","p","a","g","e","s",".","m","d">>
U_pages_through == <<"/","p","a","g","e","s","/","i",".","m","d","/",".",".","/",".",".","/","p","a","g","e","s",".","m","d">>
U_pages_long == <<"/","p","a","g","e","s","/">> \o N_long
U_pages_root == <<"/","p","a","g","e","s","/","/">>
U_pages == <<"/","p","a","g","e","s">>
U_i == <<"/","i">>
\* Paths with a line feed: at the very end, in the middle, before a final
\* slash.
U_pages_i_lf == <<"/","p","a","g","e","s","/","i","\n">>
U_pages_lf == <<"/","p","a","g","e","s","/","a","\n","b">>
U_pages_i_lf_slash == <<"/","p","a","g","e","s","/","i","\n","/">>
\* Paths of the other routes.
U_api_query == <<"/","a","p","i","/","q","u","e","r","y">>
U_api_sources == <<"/","a","p","i","/","s","o","u","r","c","e","s">>
U_docs == <<"/","d","o","c","s">>
U_static_x == <<"/","s","t","a","t","i","c","/","x">>
Urls ==
    {U_pages_i, U_pages_i_md, U_pages_v_1, U_pages_x, U_pages_i_slash,
     U_pages_empty, U_pages_up, U_pages_through, U_pages_long, U_pages_root,
     U_pages, U_i, U_pages_i_lf, U_pages_lf, U_pages_i_lf_slash,
     U_api_query, U_api_sources, U_docs, U_static_x}

\* The requests: GET for every path, and POST for a page and for the raw
\* query route.  No request has a Range header.
Request(method, url) == [method |-> method, url |-> url]
Requests ==
    {Request("GET", u) : u \in Urls}
    \cup {Request("POST", U_pages_i), Request("POST", U_api_query)}

\* A route: the literal text its path starts with, the parameter that
\* follows it ("none", "str" for {name}, "path" for {name:path}), the
\* methods it accepts, and its handler.
Route(prefix, param, methods, handler) ==
    [prefix |-> prefix, param |-> param, methods |-> methods, handler |-> handler]
AllMethods == {"GET", "HEAD", "POST"}

\* The routes of the application in the order create_app registers them:
\* the four documentation routes of FastAPI(...), the mount of the project's
\* static directory, the routes of query_router under /api, get_menu,
\* get_page, spa_fallback.
Routes ==
    << Route(<<"/","o","p","e","n","a","p","i",".","j","s","o","n">>, "none", {"GET", "HEAD"}, "openapi"),
       Route(<<"/","d","o","c","s">>, "none", {"GET", "HEAD"}, "swagger_ui_html"),
       Route(<<"/","d","o","c","s","/","o","a","u","t","h","2","-","r","e","d","i","r","e","c","t">>, "none", {"GET", "HEAD"}, "swagger_ui_redirect"),
       Route(<<"/","r","e","d","o","c">>, "none", {"GET", "HEAD"}, "redoc_html"),
       Route(<<"/","s","t","a","t","i","c","/">>, "path", AllMethods, "project-static"),
       Route(<<"/","a","p","i","/","q","u","e","r","y">>, "none", {"POST"}, "execute_query"),
       Route(<<"/","a","p","i","/","s","o","u","r","c","e","s">>, "none", {"GET"}, "list_sources"),
       Route(<<"/","a","p","i","/","s","o","u","r","c","e","s","/">>, "str", {"GET"}, "get_source"),
       Route(<<"/","a","p","i","/","c","o","n","f","i","g","/","m","e","n","u">>, "none", {"GET"}, "get_menu"),
       Route(<<"/","p","a","g","e","s","/">>, "path", {"GET"}, "get_page"),
       Route(<<"/">>, "path", {"GET"}, "spa_fallback") >>

\* The text a pattern's final $ leaves aside: one line feed at the very end.
Chomp(t) ==
    IF t # <<>> /\ t[Len(t)] = "\n" THEN SubSeq(t, 1, Len(t) - 1) ELSE t

\* route.path_regex.match(path): the literal text, then nothing ("none"),
\* [^/]+ ("str") or .* ("path", which does not cross a line feed), then $.
\* param is the text the parameter matched.
PathMatch(r, url) ==
    IF ~HasAt(url, 1, r.prefix) THEN [ok |-> FALSE, param |-> <<>>]
    ELSE LET rest == SubSeq(url, Len(r.prefix) + 1, Len(url))
         IN  CASE r.param = "none" ->
                    [ok |-> Chomp(rest) = <<>>, param |-> <<>>]
               [] r.param = "str" ->
                    [ok |-> rest # <<>> /\ \A k \in 1..Len(rest) : rest[k] # "/",
                     param |-> rest]
               [] OTHER ->
                    [ok |-> \A k \in 1..Len(Chomp(rest)) : Chomp(rest)[k] # "\n",
                     param |-> Chomp(rest)]

\* route.matches(scope): FULL when path and method fit, PARTIAL when only
\* the path does.
Matches(r, request) ==
    IF ~PathMatch(r, request.url).ok THEN "NONE"
    ELSE IF request.method \in r.methods THEN "FULL"
    ELSE "PARTIAL"

\* The first route, in registration order, that matches in full; 0 if none.
FirstMatch(request) ==
    LET hits == {i \in 1..Len(Routes) : Matches(Routes[i], request) = "FULL"}
    IN  IF hits = {} THEN 0 ELSE CHOOSE i \in hits : \A j \in hits : i <= j

\* path.rstrip("/")
RECURSIVE RStripSlash(_)
RStripSlash(t) ==
    IF t # <<>> /\ t[Len(t)] = "/" THEN RStripSlash(SubSeq(t, 1, Len(t) - 1)) ELSE t

\* The path the router tries when no route matched: without its final
\* slashes, or with one added.
RedirectPath(url) ==
    IF url # <<>> /\ url[Len(url)] = "/" THEN RStripSlash(url) ELSE Append(url, "/")

\* The components of a path text: the texts between the slashes, without
\* the empty ones and the "." ones (a trailing slash, a doubled slash and
\* "./" leave no trace in a Path).
RECURSIVE SplitFrom(_, _, _)
SplitFrom(t, i, acc) ==
    IF i > Len(t) THEN acc
    ELSE LET ends == {j \in i..Len(t) : t[j] = "/"}
             e == IF ends = {} THEN Len(t) + 1
                  ELSE CHOOSE j \in ends : \A k \in ends : j <= k
             cur == SubSeq(t, i, e - 1)
         IN  SplitFrom(t, e + 1,
                       IF cur = <<>> \/ cur = <<".">> THEN acc ELSE Append(acc, cur))

PathParts(t) == SplitFrom(t, 1, <<>>)

\* dir / path: a path that starts with a slash replaces dir.
JoinPath(dir, path) ==
    IF path # <<>> /\ Head(path) = "/" THEN PathParts(path) ELSE dir \o PathParts(path)

\* Path.name: the last component; empty for the root.
PathName(fp) == IF fp = <<>> THEN <<>> ELSE fp[Len(fp)]

\* Path.suffix: the name's text from its last dot on, when that dot is
\* neither the first nor the last character of the name; else empty.
PathSuffix(fp) ==
    LET name == PathName(fp)
        dots == {k \in 1..Len(name) : name[k] = "."}
    IN  IF dots = {} THEN <<>>
        ELSE LET d == CHOOSE k \in dots : \A j \in dots : j <= k
             IN  IF 1 < d /\ d < Len(name) THEN SubSeq(name, d, Len(name)) ELSE <<>>

\* Path.with_suffix(".md"): the last component without its suffix, plus .md.
\* Only called for a path with a name.
WithSuffixMd(fp) ==
    LET name == PathName(fp)
        stem == SubSeq(name, 1, Len(name) - Len(PathSuffix(fp)))
    IN  SubSeq(fp, 1, Len(fp) - 1) \o <<stem \o <<".","m","d">>>>

\* file_path = dir / path; if not file_path.suffix: with_suffix(".md"), which
\* raises ValueError for a path without a name.
FilePath(dir, path) ==
    LET fp == JoinPath(dir, path)
    IN  IF PathSuffix(fp) # <<>> THEN [ok |-> TRUE, path |-> fp]
        ELSE IF PathName(fp) = <<>> THEN [ok |-> FALSE, path |-> fp]
        ELSE [ok |-> TRUE, path |-> WithSuffixMd(fp)]

\* What is at a resolved path.
KindAt(fs, p) ==
    IF p \in FixedDirs THEN "dir" ELSE IF p \in DOMAIN fs THEN fs[p] ELSE "none"

\* os.stat on a path: the components are followed from the root, ".." goes
\* to the parent.  The answer is the kind of the entry, or the error: ENOENT
\* when an entry on the way is missing, ENOTDIR when an entry on the way is
\* a regular file, ENAMETOOLONG when a name is longer than NAME_MAX; and the
\* place the walk ended at.  The entries are not symbolic links and every
\* path is shorter than PATH_MAX.
RECURSIVE Walk(_, _, _)
Walk(fs, cur, rest) ==
    IF KindAt(fs, cur) = "none" THEN [kind |-> "ENOENT", at |-> cur]
    ELSE IF rest = <<>> THEN [kind |-> KindAt(fs, cur), at |-> cur]
    ELSE IF KindAt(fs, cur) # "dir" THEN [kind |-> "ENOTDIR", at |-> cur]
    ELSE IF Head(rest) = <<".", ".">>
         THEN Walk(fs, IF cur = <<>> THEN <<>> ELSE SubSeq(cur, 1, Len(cur) - 1), Tail(rest))
    ELSE IF Len(Head(rest)) > NameMax THEN [kind |-> "ENAMETOOLONG", at |-> cur]
    ELSE Walk(fs, Append(cur, Head(rest)), Tail(rest))

EntryKind(fs, fp) == Walk(fs, <<>>, fp).kind

\* The regular file a path leads to: the place of its entry, and which of
\* the files that were there it is.
FileAt(fs, fp) == <<Walk(fs, <<>>, fp).at, Walk(fs, <<>>, fp).kind>>

\* st_size of a regular file: the first file of an entry has one byte more
\* than a chunk, the file that replaced it has exactly one chunk, and a file
\* that was cut in place has one byte.
SizeOf(file, cut) ==
    IF file \in cut THEN 1
    ELSE IF file[2] = "file" THEN ChunkSize + 1
    ELSE ChunkSize

\* Path.exists(): "True" for a regular file and for a directory, "False"
\* when stat fails with ENOENT or ENOTDIR; any other error of stat is
\* raised as OSError.
Exists(fs, fp) ==
    CASE EntryKind(fs, fp) \in Regular \cup {"dir"} -> "True"
      [] EntryKind(fs, fp) \in {"ENOENT", "ENOTDIR"} -> "False"
      [] OTHER -> "OSError"

\* The exception a failed stat or open raises.
ErrorOf(kind) ==
    CASE kind = "ENOENT" -> "FileNotFoundError"
      [] kind = "ENOTDIR" -> "NotADirectoryError"
      [] kind = "dir" -> "IsADirectoryError"
      [] OTHER -> "OSError: File name too long"

\* Sending a FileResponse, first part: the path is stat'ed.  A regular file
\* starts the response with status 200; a missing file and a directory are
\* RuntimeError, any other failure of stat is raised as it is: an internal
\* server error each time.
SendOutcome(fs, fp) ==
    CASE EntryKind(fs, fp) \in Regular -> Response(200, "start", fp)
      [] EntryKind(fs, fp) = "dir" -> Response(500, "RuntimeError: not a file", fp)
      [] EntryKind(fs, fp) = "ENOENT" -> Response(500, "RuntimeError: does not exist", fp)
      [] OTHER -> Response(500, ErrorOf(EntryKind(fs, fp)), fp)

\* file.read(chunk_size) at position pos of a file of the given size.
ReadChunk(size, pos) ==
    IF size <= pos THEN 0
    ELSE IF size - pos < ChunkSize THEN size - pos
    ELSE ChunkSize

\* What the client has when the last chunk is out: status 200, the
\* content-length of the stat, and the chunks that were sent.
FileSent(fp, length, body) ==
    Response(200, "file", [path |-> fp, content_length |-> length, body |-> body])

InitPages ==
    /\ Halted
    /\ text = NoText
    /\ \E f \in FileSystems : page = [NoPage EXCEPT !.pc = "idle", !.fs = f]

\* The handler returned, or raised into, a final answer.
Answer(r) == [page EXCEPT !.pc = "done", !.resp = r]

\* A request arrives and the router picks its route: the first full match;
\* without one, 405 when a route matches the path; without that, a redirect
\* when a route matches the path with its final slash added or removed;
\* else 404.  A route other than get_page and spa_fallback is followed no
\* further here.
Dispatch(request) ==
    /\ page.pc = "idle"
    /\ LET i == FirstMatch(request)
           r == Routes[i]
           partial == \E j \in 1..Len(Routes) : Matches(Routes[j], request) = "PARTIAL"
           redirect == \E j \in 1..Len(Routes) :
                          PathMatch(Routes[j], RedirectPath(request.url)).ok
           p == [page EXCEPT !.method = request.method, !.url = request.url]
       IN  page' =
             IF i # 0
             THEN [p EXCEPT !.pc = IF r.handler \in {"get_page", "spa_fallback"}
                                   THEN "routed" ELSE "elsewhere",
                            !.handler = r.handler,
                            !.path = PathMatch(r, request.url).param]
             ELSE [p EXCEPT !.pc = "done",
                            !.resp = IF partial
                                     THEN Response(405, "Method Not Allowed", "")
                                     ELSE IF request.url # <<"/">> /\ redirect
                                     THEN Response(307, "redirect", RedirectPath(request.url))
                                     ELSE Response(404, "Not Found", "")]
    /\ UNCHANGED <<mainVars, text>>

\* The handler returned FileResponse(fp): the file is looked at again when
\* the response is sent.
Returned(fp) == [page EXCEPT !.pc = "sending", !.send = fp]

\* get_page, the first look: the project's path when it exists, else the
\* package's path; exists() may raise.
GetPage ==
    /\ page.pc = "routed"
    /\ page.handler = "get_page"
    /\ LET p1 == FilePath(ProjectPagesDir, page.path)
           p2 == FilePath(PackagePagesDir, page.path)
           e1 == Exists(page.fs, p1.path)
       IN  page' =
             IF ~p1.ok THEN Answer(Response(500, "ValueError", page.path))
             ELSE IF e1 = "OSError"
             THEN Answer(Response(500, ErrorOf("ENAMETOOLONG"), p1.path))
             ELSE IF e1 = "True" THEN [page EXCEPT !.pc = "chosen", !.send = p1.path]
             ELSE IF ~p2.ok THEN Answer(Response(500, "ValueError", page.path))
             ELSE [page EXCEPT !.pc = "chosen", !.send = p2.path]
    /\ UNCHANGED <<mainVars, text>>

\* get_page, the second look, at the path the first look chose: 404 when it
\* does not exist now, else FileResponse.
GetPageReturn ==
    /\ page.pc = "chosen"
    /\ LET e == Exists(page.fs, page.send)
       IN  page' =
             IF e = "OSError"
             THEN Answer(Response(500, ErrorOf("ENAMETOOLONG"), page.send))
             ELSE IF e = "False"
             THEN Answer(Response(404, "Page not found: ", page.path))
             ELSE Returned(page.send)
    /\ UNCHANGED <<mainVars, text>>

\* spa_fallback, the look at the project's index.html.
SpaFallback ==
    /\ page.pc = "routed"
    /\ page.handler = "spa_fallback"
    /\ page' = IF Exists(page.fs, ProjectIndex) = "True" THEN Returned(ProjectIndex)
               ELSE [page EXCEPT !.pc = "package"]
    /\ UNCHANGED <<mainVars, text>>

\* spa_fallback, the look at the package's index.html.
SpaFallbackPackage ==
    /\ page.pc = "package"
    /\ page' = IF Exists(page.fs, PackageIndex) = "True" THEN Returned(PackageIndex)
               ELSE Answer(Response(404, "index.html not found", ""))
    /\ UNCHANGED <<mainVars, text>>

\* Where a request is between two looks at the files.
BetweenLooks == {"chosen", "package", "sending", "started", "opened", "chunk"}

\* Between two looks other processes run, and the event loop runs other
\* work at each await of the sending: any entry may be removed, created or
\* replaced.
FileChanges ==
    /\ page.pc \in BetweenLooks
    /\ page.changes < MaxChanges
    /\ \E p \in DOMAIN page.fs : \E k \in ChangeKinds \ {page.fs[p]} :
          page' = [page EXCEPT !.fs[p] = k, !.changes = @ + 1]
    /\ UNCHANGED <<mainVars, text>>

\* Or a regular file is cut in place: the same file, with other content.
FileCut ==
    /\ page.pc \in BetweenLooks
    /\ page.changes < MaxChanges
    /\ \E p \in DOMAIN page.fs :
          /\ page.fs[p] \in Regular
          /\ <<p, page.fs[p]>> \notin page.cut
          /\ page' = [page EXCEPT !.cut = @ \cup {<<p, page.fs[p]>>},
                                  !.changes = @ + 1]
    /\ UNCHANGED <<mainVars, text>>

\* The response is sent: stat, then status and headers with the
\* content-length of the stat.
SendFile ==
    /\ page.pc = "sending"
    /\ LET r == SendOutcome(page.fs, page.send)
       IN  page' = IF r.status = 200
                   THEN [page EXCEPT !.pc = "started",
                                     !.length = SizeOf(FileAt(page.fs, page.send), page.cut)]
                   ELSE Answer(r)
    /\ UNCHANGED <<mainVars, text>>

\* The file is opened.  When that fails the client has the start of a 200
\* response and no body.
SendOpen ==
    /\ page.pc = "started"
    /\ LET k == EntryKind(page.fs, page.send)
       IN  page' = IF k \in Regular
                   THEN [page EXCEPT !.pc = "opened",
                                     !.file = FileAt(page.fs, page.send)]
                   ELSE Answer(Response(200, "no body: " \o ErrorOf(k), page.send))
    /\ UNCHANGED <<mainVars, text>>

\* chunk = await file.read(chunk_size), from the file that was opened.
SendRead ==
    /\ page.pc = "opened"
    /\ LET n == ReadChunk(SizeOf(page.file, page.cut), page.pos)
       IN  page' = [page EXCEPT !.pc = "chunk", !.chunk = n, !.pos = @ + n]
    /\ UNCHANGED <<mainVars, text>>

\* await send(chunk): a full chunk is followed by another read, any other
\* chunk is the last.
SendBody ==
    /\ page.pc = "chunk"
    /\ LET body == Append(page.body, page.chunk)
       IN  page' = IF page.chunk = ChunkSize
                   THEN [page EXCEPT !.pc = "opened", !.body = body]
                   ELSE [page EXCEPT !.pc = "done", !.body = body,
                                     !.resp = FileSent(page.send, page.length, body)]
    /\ UNCHANGED <<mainVars, text>>

NextPages ==
    \/ \E r \in Requests : Dispatch(r)
    \/ GetPage
    \/ GetPageReturn
    \/ SpaFallback
    \/ SpaFallbackPackage
    \/ FileChanges
    \/ FileCut
    \/ SendFile
    \/ SendOpen
    \/ SendRead
    \/ SendBody

SpecPages == InitPages /\ [][NextPages]_vars

\* --------------------------------------------------------------- claims

\* The error kinds of the design, read off a response.
Kind(resp) ==
    CASE resp.status = 200 -> "Ok"
      [] resp.status = 404 -> "NotFound"
      [] resp.msg = "Unknown source: " -> "UnknownSource"
      [] resp.msg \in {"Missing parameters: ", "Unexpected parameters: ",
                       "Invalid parameters: "} -> "InvalidParameters"
      [] resp.msg = "Query error: " -> "QueryExecutionFailed"
      [] OTHER -> "Other"

\* The request of /query/v2 under way, seen from outside: the definition its
\* key has in the snapshot that was live when it started, and what the
\* three checks say about it.
Secure == req.kind = "secure"
Done == req.pc = "done"
Defined == req.key \in DOMAIN req.reg
Definition == RegistryGet(req.reg, req.key)
Declared == Range(Definition.params)
Supplied == DOMAIN req.params
SourceKnown == Definition.source \in DictKeys(sources)
NamesMatch == Declared = Supplied

\* C1: a request whose supplied parameter names differ from the declared
\* ones fails with one InvalidParameters error that names every missing and
\* every extra parameter.
C1_BothSetsNamed ==
    (Secure /\ Done /\ Defined /\ SourceKnown /\ ~NamesMatch) =>
        /\ Kind(req.resp) = "InvalidParameters"
        /\ (Declared \ Supplied) \cup (Supplied \ Declared) \subseteq req.resp.arg

\* C2: the deployment has no edit mode, so every run is in normal mode: the
\* SQL handed to the engine is the interpolation of a template held in the
\* registry, never the sql field of a request.
C2_OnlyRegistrySql ==
    req.calls > 0 =>
        /\ req.kind # "raw"
        /\ \E reg \in {registry, req.reg} : \E k \in DOMAIN reg :
              \E p \in ParamMaps : req.runsql = InterpolateSql(reg[k], p).sql

\* C3: the engine is invoked only for a request whose definition resolved,
\* whose source is in the catalog and whose parameter names equal the
\* declared ones; a request fails with the error of the earliest failing
\* step (NotFound, then UnknownSource, then InvalidParameters), and no later
\* step is performed for it.
C3_FirstFailureWins ==
    Secure =>
        /\ req.calls > 0 => Defined /\ SourceKnown /\ NamesMatch
        /\ req.runsql # <<>> => Defined /\ SourceKnown /\ NamesMatch
        /\ (Done /\ ~Defined) =>
              Kind(req.resp) = "NotFound" /\ ~req.readCatalog
        /\ (Done /\ Defined /\ ~SourceKnown) =>
              Kind(req.resp) = "UnknownSource"
        /\ (Done /\ Defined /\ SourceKnown /\ ~NamesMatch) =>
              Kind(req.resp) = "InvalidParameters"
        /\ (Done /\ Kind(req.resp) \in {"NotFound", "UnknownSource", "InvalidParameters"}) =>
              req.calls = 0 /\ req.runsql = <<>>

\* Several checks fail at once, and the earliest one is reported.
C3_Witness ==
    /\ Secure /\ Done /\ Defined /\ ~SourceKnown /\ ~NamesMatch
    /\ Kind(req.resp) = "UnknownSource"

\* C4: the lookup of a key without a definition answers absent, and the
\* request fails with NotFound without reading the catalog or calling the
\* engine.
C4_AbsentIsNotFound ==
    (Secure /\ ~Defined) =>
        /\ req.query = Absent
        /\ Done
        /\ req.resp = Response(404, "Query not found: ", req.key)
        /\ ~req.readCatalog
        /\ req.calls = 0

\* An unknown key is asked of a registry that holds definitions.
C4_Witness ==
    /\ Secure /\ Done /\ ~Defined
    /\ req.reg # EmptyRegistry
    /\ req.resp.status = 404

\* C5: an engine failure ends the request in QueryExecutionFailed with the
\* engine's message; the engine is invoked at most once per request, and a
\* finished request stays as it ended until the next request is taken.
C5_EngineFailureReported ==
    /\ [](/\ req.calls <= 1
          /\ req.error # "" =>
                /\ Done
                /\ req.calls = 1
                /\ req.resp = Response(400, "Query error: ", req.error)
                /\ Kind(req.resp) = "QueryExecutionFailed")
    /\ [][Done => (req' = req \/ served' = served + 1)]_vars

\* The engine raised for a request.
C5_Witness == Done /\ req.error \in EngineErrors /\ req.calls = 1

\* C6: a scan of a corpus that declares a (page, name) twice ends aborted
\* with a ConfigurationError, and get() then answers for every key as it did
\* before the scan.
C6_DuplicateAbortsBuild ==
    (build.state \in {"committed", "aborted"} /\ HasDuplicate(build.corpus)) =>
        /\ build.state = "aborted"
        /\ build.error = "ConfigurationError"
        /\ \A k \in Keys : RegistryGet(registry, k) = RegistryGet(build.before, k)

\* A scan was aborted while a snapshot with definitions was live.
C6_Witness ==
    /\ build.state = "aborted"
    /\ build.before # EmptyRegistry
    /\ registry = build.before

\* The registries that a complete scan produces (and the empty one the
\* process starts with).
CompleteSnapshots ==
    {EmptyRegistry} \cup
    {BuildAll(c, EmptyRegistry) : c \in {d \in Corpora : ~HasDuplicate(d)}}

\* C7: the live registry and the registry a request works on are complete
\* snapshots, and a request looks up and interpolates the definition of one
\* snapshot, the one that was live when it started, whatever a rebuild does
\* in between.
C7_SnapshotIsolation ==
    /\ registry \in CompleteSnapshots
    /\ Secure =>
          /\ req.reg \in CompleteSnapshots
          /\ req.query = RegistryGet(req.reg, req.key)
          /\ req.runsql # <<>> =>
                req.runsql = InterpolateSql(Definition, req.params).sql

\* A rebuild replaced the live registry between a request's lookup and its
\* interpolation, and changed the definition of the request's key.
C7_Witness ==
    /\ Secure
    /\ req.pc = "resolved"
    /\ registry # req.reg
    /\ RegistryGet(registry, req.key) # req.query

\* C8: no register_source call is in progress while a request is being
\* handled or its SQL is being executed.
C8_RegisterExcludesExecute ==
    regPc = "inside" => req.pc \notin {"resolved", "ready", "executing"}

\* SQL is being executed on a catalog whose registrations are finished.
C8_Witness ==
    /\ req.pc = "executing"
    /\ regPc = "idle"
    /\ registered_tables # {}

\* C9: no step of a request changes the registry, its definitions or the
\* registered sources, whatever the request's outcome, and the service keeps
\* serving after it.
C9_RequestsLeaveSharedState ==
    /\ [](served > 0 => phase = "serving")
    /\ [][req' # req =>
            /\ sources' = sources
            /\ registered_tables' = registered_tables
            /\ registry' = registry
            /\ phase' = phase]_vars

\* A second request failed in the engine; sources and definitions are there.
C9_Witness ==
    /\ served >= 2
    /\ Done
    /\ Kind(req.resp) = "QueryExecutionFailed"
    /\ sources # <<>>
    /\ registry # EmptyRegistry

Supported_kind(type) == type \in {"csv", "parquet"}

\* C10: every register_source call for a kind other than csv and parquet
\* raises in that call; a source of such a kind is in the catalog only while
\* its call runs or after the call ended the startup, so no request is ever
\* handled with it.
C10_UnsupportedKindRaisesAtRegistration ==
    /\ \A i \in 1..Len(regCalls) :
          ~Supported_kind(regCalls[i].type) => regCalls[i].outcome = "ValueError"
    /\ \A n \in DictKeys(sources) :
          ~Supported_kind(DictGet(sources, n).type) =>
              \/ regPc = "inside"
              \/ phase = "failed" /\ startupError = "ValueError"
    /\ served > 0 =>
          \A n \in DictKeys(sources) : Supported_kind(DictGet(sources, n).type)

\* A source of kind xlsx was registered after a good one, and the call raised.
C10_Witness ==
    /\ phase = "failed"
    /\ startupError = "ValueError"
    /\ Len(regCalls) = 2
    /\ regCalls[2] = [name |-> "sheet", type |-> "xlsx", outcome |-> "ValueError"]

Answered == Done /\ req.kind \in {"secure", "raw"} /\ req.resp.status = 200

\* C11: every successful query result is well shaped: row_count is the number
\* of rows in data, every row has as many values as there are columns, and the
\* columns are the entries of the engine's description in positional order.
C11_ResultWellShaped ==
    Answered =>
        LET res == req.resp.arg
            desc == req.cursor.description
        IN /\ res.row_count = Len(res.data)
           /\ \A i \in 1..Len(res.data) : Len(res.data[i]) = Len(res.columns)
           /\ Len(res.columns) = Len(desc)
           /\ \A j \in 1..Len(desc) :
                 /\ res.columns[j].name = desc[j][1]
                 /\ res.columns[j].type = desc[j][2]

\* A two-column, two-row answer and a one-column, no-row answer both occur.
C11_Witness ==
    /\ Answered
    /\ req.cursor = ResultEmpty
    /\ req.resp.arg.row_count = 0
    /\ Len(req.resp.arg.columns) = 1

\* The names of the well-formed token pieces, each once, in first-occurrence
\* order, read off the pieces the template was written from.
RECURSIVE TokenNames(_, _)
TokenNames(ps, acc) ==
    IF ps = <<>> THEN acc
    ELSE TokenNames(Tail(ps),
                    IF Head(ps).kind = "tok" /\ Head(ps).name \notin Range(acc)
                    THEN Append(acc, Head(ps).name) ELSE acc)

\* C12: the extracted params of a template are the names inside its
\* well-formed tokens, each once, in order of first occurrence; no placeholder
\* gives the empty sequence and a malformed token gives no name.
C12_ExtractionExact ==
    text.pc = "extracted" => text.names = TokenNames(text.pieces, <<>>)

\* A template with a repeated token, a second token and a malformed token in
\* between was extracted.
C12_Witness ==
    /\ text.pc = "extracted"
    /\ Len(text.pieces) = 3
    /\ text.pieces[1].kind = "tok"
    /\ text.pieces[2].kind = "bad"
    /\ text.pieces[3] = text.pieces[1]
    /\ Len(text.names) = 1

\* A template without placeholders was extracted to the empty sequence.
C12_WitnessNone ==
    /\ text.pc = "extracted"
    /\ text.pieces # <<>>
    /\ \A k \in 1..Len(text.pieces) : text.pieces[k].kind # "tok"
    /\ text.names = <<>>

\* Reading a literal's inside back: every quote must be followed by a second
\* one, and a pair stands for one quote of the value.
RECURSIVE Unquote(_)
Unquote(s) ==
    IF s = <<>> THEN [ok |-> TRUE, v |-> <<>>]
    ELSE IF Head(s) = "'"
         THEN IF Len(s) >= 2 /\ s[2] = "'"
              THEN LET r == Unquote(Tail(Tail(s)))
                   IN  [ok |-> r.ok, v |-> <<"'">> \o r.v]
              ELSE [ok |-> FALSE, v |-> <<>>]
         ELSE LET r == Unquote(Tail(s))
              IN  [ok |-> r.ok, v |-> <<Head(s)>> \o r.v]

\* lit is a closed SQL string literal that denotes the string v.
ClosedLiteral(lit, v) ==
    /\ Len(lit) >= 2
    /\ lit[1] = "'"
    /\ lit[Len(lit)] = "'"
    /\ LET u == Unquote(SubSeq(lit, 2, Len(lit) - 1))
       IN  u.ok /\ u.v = v

LiteralLen(v) == 2 + Len(v) + Cardinality({k \in 1..Len(v) : v[k] = "'"})

\* out, from position pos on, is the pieces' text with every token piece
\* replaced by a closed literal of v and every other piece unchanged.
RECURSIVE OnlyTokensReplaced(_, _, _, _)
OnlyTokensReplaced(ps, out, pos, v) ==
    IF ps = <<>> THEN pos = Len(out) + 1
    ELSE LET p == Head(ps)
             n == IF p.kind = "tok" THEN LiteralLen(v) ELSE Len(p.txt)
         IN  /\ pos + n - 1 <= Len(out)
             /\ IF p.kind = "tok"
                THEN ClosedLiteral(SubSeq(out, pos, pos + n - 1), v)
                ELSE HasAt(out, pos, p.txt)
             /\ OnlyTokensReplaced(Tail(ps), out, pos + n, v)

\* C13: interpolating a string value puts, in place of every token, a closed
\* string literal (quote, the value with every quote doubled, quote), and
\* leaves the template's text outside the tokens unchanged.
C13_StringLiteralClosed ==
    text.pc = "interpolated" =>
        OnlyTokensReplaced(text.pieces, text.sql, 1, text.value)

\* A value with a quote in it was interpolated into a template that has a
\* token between a quote and a malformed token.
C13_Witness ==
    /\ text.pc = "interpolated"
    /\ text.value = <<"O", "'">>
    /\ Len(text.pieces) = 3
    /\ text.pieces[1].txt = <<"'">>
    /\ text.pieces[2].kind = "tok"
    /\ text.pieces[3].kind = "bad"
    /\ HasAt(text.sql, 2, <<"'", "O", "'", "'", "'">>)

\* The value domain of the encoding: string, number, boolean, null, or a
\* non-empty list of those.
ScalarType(v) == v.t \in {"str", "num", "bool", "null"}
InValueDomain(v) ==
    \/ ScalarType(v)
    \/ v.t = "list" /\ Len(v.v) > 0 /\ \A k \in 1..Len(v.v) : ScalarType(v.v[k])
OutOfDomain == \E n \in DOMAIN req.params : ~InValueDomain(req.params[n])

\* C14: a request of /query/v2 with a value outside the value domain, or with
\* an empty list, never has SQL built or executed for it; once it passed the
\* lookup, the source check and the name checks it ends as InvalidParameters;
\* and SQL is only ever built from values that all have an encoding.
C14_UnsupportedValueRejected ==
    /\ (Secure /\ OutOfDomain) =>
          /\ req.runsql = <<>>
          /\ req.calls = 0
          /\ req.pc \in {"resolved", "done"}
          /\ Done => req.resp.status # 200
          /\ (Done /\ Defined /\ SourceKnown /\ NamesMatch) =>
                 /\ Kind(req.resp) = "InvalidParameters"
                 /\ req.resp.msg = "Invalid parameters: "
    /\ (Secure /\ req.runsql # <<>>) =>
          \A n \in DOMAIN req.params : InValueDomain(req.params[n])

\* A request whose names match and whose only flaw is an empty list was
\* answered.
C14_Witness ==
    /\ Secure /\ Done /\ Defined /\ SourceKnown /\ NamesMatch
    /\ \E n \in DOMAIN req.params : req.params[n] = VEmptyList
    /\ Kind(req.resp) = "InvalidParameters"

\* What list-sources answers in the current state.
Listed == ListOf(sources)

\* C15: describe-source of a name answers that name's {name, kind,
\* description} exactly when the name is among the entries list-sources
\* returns, and NotFound for every other name; list-sources returns one entry
\* per registered source.
C15_ListAndDescribeAgree ==
    /\ (Done /\ req.kind = "describe") =>
          IF \E i \in 1..Len(Listed) : Listed[i].name = req.source
          THEN /\ req.resp.status = 200
               /\ req.resp.arg.name = req.source
               /\ \E i \in 1..Len(Listed) : Listed[i] = req.resp.arg
          ELSE Kind(req.resp) = "NotFound"
    /\ (Done /\ req.kind = "list") =>
          /\ req.resp.status = 200
          /\ Len(req.resp.arg) = Cardinality(registered_tables)
          /\ \A n \in registered_tables :
                \E i \in 1..Len(req.resp.arg) :
                   /\ req.resp.arg[i].name = n
                   /\ req.resp.arg[i].type = DictGet(sources, n).type
                   /\ req.resp.arg[i].description = DictGet(sources, n).description
                   /\ \A j \in 1..Len(req.resp.arg) :
                         req.resp.arg[j].name = n => j = i

\* With two sources registered, a list request was answered and then a
\* describe request for one of the listed names.
C15_Witness ==
    /\ served = 2
    /\ Done
    /\ req.kind = "describe"
    /\ req.resp.status = 200
    /\ Cardinality(registered_tables) = 2
    /\ \E i \in 1..Len(Listed) : Listed[i] = req.resp.arg

\* A describe request for a name that is not listed was answered NotFound.
C15_WitnessNotFound ==
    /\ Done
    /\ req.kind = "describe"
    /\ sources # <<>>
    /\ Kind(req.resp) = "NotFound"

\* C17: between register_source calls, the names in Database.sources are the
\* names in _registered_tables, also after a call that raised.
C17_CatalogMatchesRegisteredTables ==
    regPc = "idle" => DictKeys(sources) = registered_tables

\* The file each plain /pages/ URL stands for: the path after /pages/, with
\* .md added when it has no suffix.
PageOf ==
    (U_pages_i :> N_i_md) @@ (U_pages_i_md :> N_i_md) @@ (U_pages_v_1 :> N_v_1)
    @@ (U_pages_x :> <<"x",".","m","d">>)

IsFile(fs, fp) == fp \in DOMAIN fs /\ fs[fp] = "file"

\* A GET of a plain page was answered and no file changed meanwhile.
PageAnswered ==
    /\ page.pc = "done"
    /\ page.method = "GET"
    /\ page.url \in DOMAIN PageOf
    /\ page.changes = 0

\* The whole file went out: status 200 and a body as long as announced.
RECURSIVE SumOf(_)
SumOf(s) == IF s = <<>> THEN 0 ELSE Head(s) + SumOf(Tail(s))
FileDelivered(fp) ==
    /\ page.resp.status = 200
    /\ page.resp.msg = "file"
    /\ page.resp.arg.path = fp
    /\ SumOf(page.resp.arg.body) = page.resp.arg.content_length

\* The three outcomes of a page request: the project's file when there is
\* one, else the package's file when there is one, else 404.
PriorityOutcome ==
    LET f == PageOf[page.url]
    IN  /\ page.handler = "get_page"
        /\ IF IsFile(page.fs, ProjectPagesDir \o <<f>>)
           THEN FileDelivered(ProjectPagesDir \o <<f>>)
           ELSE IF IsFile(page.fs, PackagePagesDir \o <<f>>)
           THEN FileDelivered(PackagePagesDir \o <<f>>)
           ELSE page.resp.status = 404

\* C16: every GET /pages/{path} is handled by get_page, not by the SPA
\* fallback, and answers the project's file when it exists, otherwise the
\* package's file when that exists, otherwise 404, where a path without a
\* suffix stands for the same path with .md.
C16_ProjectOverBundled == PageAnswered => PriorityOutcome

\* The same, for pages directories that hold regular files only.
C16_RegularFilesOnly ==
    (/\ PageAnswered
     /\ \A p \in DOMAIN page.fs : page.fs[p] # "dir")
        => PriorityOutcome
====
